---- MODULE Spec2Model ----
(***************************************************************************)
(* Model of config.py of ab-flasher: the first-boot configurator that      *)
(* finds the freshly flashed volume by its '.configure_me' marker, writes  *)
(* the ssh / wifi / ab-flasher.env artifacts on it and removes the marker. *)
(*                                                                         *)
(* Strings are sequences of tokens (each token a TLA+ string), so that     *)
(* concatenation, formatting and str.split() are computed, not assumed.    *)
(***************************************************************************)
EXTENDS Naturals, Sequences, FiniteSets

\* ------------------------------------------------------------------ bounds
\* Longest directory listing / mount table considered.
MaxLen == 2
\* Number of runs of main() a process performs one after the other.
MaxRuns == 2

\* Volume labels / mount names.
Names == {"a", "b"}
\* The invocations of config.py.  Spec runs one invocation at a time, as
\* process 1; process 2 stays idle there.
Procs == {1, 2}

\* ------------------------------------------------------------- text values
\* Python's None, as a value no string token is equal to.
None == "<None>"
\* str(v) inside an f-string: None is rendered as the text "None".
Fmt(v) == IF v = None THEN "None" ELSE v
\* A test for "is not None" in place of truthiness.
TruthyNotNone(v) == v # None
\* Python truthiness of an Optional[str].
Truthy(v) == v # None /\ v # ""

Whitespace == {" ", "\t", "\n"}

\* str.split() without arguments: fields separated by runs of whitespace,
\* no empty fields at either end.
RECURSIVE SplitFrom(_, _, _, _)
SplitFrom(s, i, cur, acc) ==
    IF i > Len(s)
    THEN IF cur = <<>> THEN acc ELSE Append(acc, cur)
    ELSE IF s[i] \in Whitespace
         THEN SplitFrom(s, i + 1, <<>>, IF cur = <<>> THEN acc ELSE Append(acc, cur))
         ELSE SplitFrom(s, i + 1, Append(cur, s[i]), acc)

split(s) == SplitFrom(s, 1, <<>>, <<>>)

\* ------------------------------------------------------------------- paths
CONFIG_FLAG == ".configure_me"
VolumesDir == "/Volumes/"
MntDir == "/mnt/"

\* f'/Volumes/{d}'
VolumePath(d) == <<VolumesDir, d>>
\* Every mount path the bounded host can report.
Paths == { <<r, n>> : r \in {VolumesDir, MntDir}, n \in Names }
\* "no mount": the value of data_mount before / without a successful locate.
NoMount == <<>>

\* File contents: a sequence of tokens; NoFile when the file does not exist.
NoFile == <<"<no file>">>
EmptyFile == <<>>

\* ------------------------------------------------------------------- state
VARIABLES
    Volumes,      \* '/Volumes': [st: absent | denied | listable, entries: Seq(Names)]
    proc_mounts,  \* '/proc/mounts': [st: absent | denied | readable, lines: Seq(line)]
    dotenv,       \* the local '.env': "absent" | "template" | "filled"
    vol,          \* Paths -> the files this program touches on that volume
    pc,           \* Procs -> position of the process in main()
    config,       \* Procs -> the Variables() record of the current run
    scan,         \* Procs -> what get_mounts() returned to find_data_mount
    data_mount,   \* Procs -> main's data_mount
    outcome,      \* Procs -> how the current run ended ("none" while running)
    ops,          \* Procs -> file operations the current run has completed
    vol0,         \* Procs -> vol as it was when the current run started
    prev,         \* Procs -> [outcome, data_mount, ops] of the previous run
    runs,         \* Procs -> number of runs started
    recreate_dotenv  \* Procs -> main's parameter recreate_dotenv

vars == <<Volumes, proc_mounts, dotenv, vol, pc, config, scan, data_mount,
          outcome, ops, vol0, prev, runs, recreate_dotenv>>

host == <<Volumes, proc_mounts>>

\* ------------------------------------------------------------ get_mounts
NoScan == [err |-> "not called", mounts |-> <<>>, probed |-> <<>>]

\* An enumerator that consults the mount table before the volumes directory.
get_mounts_table_first ==
    IF proc_mounts.st = "readable"
    THEN [err |-> "none",
          mounts |-> [i \in 1..Len(proc_mounts.lines) |-> split(proc_mounts.lines[i])[2]],
          probed |-> <<"open">>]
    ELSE IF Volumes.st = "listable"
    THEN [err |-> "none",
          mounts |-> [i \in 1..Len(Volumes.entries) |-> VolumePath(Volumes.entries[i])],
          probed |-> <<"open", "listdir">>]
    ELSE [err |-> "UnsupportedPlatform", mounts |-> <<>>, probed |-> <<"open", "listdir">>]

\* A mount-table line has the fields <device> <mountpoint> <fstype> ...
\* get_mounts(): the macOS listing first; only FileNotFoundError falls
\* through to the Linux mount table; any other error of listdir/open
\* propagates.  probed lists the mechanisms that were attempted.
get_mounts ==
    IF Volumes.st = "listable"
    THEN [err |-> "none",
          mounts |-> [i \in 1..Len(Volumes.entries) |-> VolumePath(Volumes.entries[i])],
          probed |-> <<"listdir">>]
    ELSE IF Volumes.st # "absent"
    THEN [err |-> "OSError", mounts |-> <<>>, probed |-> <<"listdir">>]
    ELSE IF proc_mounts.st = "readable"
    THEN IF \E i \in 1..Len(proc_mounts.lines) : Len(split(proc_mounts.lines[i])) < 2
         THEN [err |-> "IndexError", mounts |-> <<>>, probed |-> <<"listdir", "open">>]
         ELSE [err |-> "none",
               mounts |-> [i \in 1..Len(proc_mounts.lines) |-> split(proc_mounts.lines[i])[2]],
               probed |-> <<"listdir", "open">>]
    ELSE IF proc_mounts.st # "absent"
    THEN [err |-> "OSError", mounts |-> <<>>, probed |-> <<"listdir", "open">>]
    ELSE [err |-> "UnsupportedPlatform", mounts |-> <<>>, probed |-> <<"listdir", "open">>]

\* ------------------------------------------------------- find_data_mount
\* open(flag_file, 'r') succeeds.
FlagReadable(mount) == mount \in Paths /\ vol[mount].marker = "readable"

\* A scan without the early return: the last mount with a flag wins.
RECURSIVE ScanLast(_, _)
ScanLast(L, i) ==
    IF i > Len(L) THEN 0
    ELSE LET k == ScanLast(L, i + 1) IN
         IF k # 0 THEN k
         ELSE IF FlagReadable(L[i]) THEN i ELSE 0

\* The for loop of find_data_mount from position i on: index of the mount
\* returned, 0 when the loop runs off the end.
RECURSIVE ScanFrom(_, _)
ScanFrom(L, i) ==
    IF i > Len(L) THEN 0
    ELSE IF FlagReadable(L[i]) THEN i
    ELSE ScanFrom(L, i + 1)

\* A locator that falls back on the first mount when no flag file is found.
find_data_mount_fallback ==
    LET r == get_mounts IN
    IF r.err # "none" THEN [err |-> r.err, mount |-> NoMount]
    ELSE LET k == ScanFrom(r.mounts, 1) IN
         IF k = 0
         THEN IF Len(r.mounts) > 0 /\ r.mounts[1] \in Paths
              THEN [err |-> "none", mount |-> r.mounts[1]]
              ELSE [err |-> "TargetNotFound", mount |-> NoMount]
         ELSE [err |-> "none", mount |-> r.mounts[k]]

\* A locator whose except clause does not cover a flag file that exists but
\* cannot be opened: the error of the first such candidate ends the scan.
find_data_mount_narrow_except ==
    LET r == get_mounts IN
    IF r.err # "none" THEN [err |-> r.err, mount |-> NoMount]
    ELSE LET k == ScanFrom(r.mounts, 1)
             U == { i \in 1..Len(r.mounts) :
                      /\ r.mounts[i] \in Paths
                      /\ vol[r.mounts[i]].marker = "unreadable"
                      /\ (k = 0 \/ i < k) } IN
         IF U # {} THEN [err |-> "OSError", mount |-> NoMount]
         ELSE IF k = 0 THEN [err |-> "TargetNotFound", mount |-> NoMount]
         ELSE [err |-> "none", mount |-> r.mounts[k]]

\* A locator that calls get_mounts() inside its try block: an error of the
\* enumeration is swallowed and the scan reports that no drive was found.
find_data_mount_masks_enumerator ==
    LET r == get_mounts IN
    IF r.err # "none" THEN [err |-> "TargetNotFound", mount |-> NoMount]
    ELSE LET k == ScanFrom(r.mounts, 1) IN
         IF k = 0 THEN [err |-> "TargetNotFound", mount |-> NoMount]
         ELSE [err |-> "none", mount |-> r.mounts[k]]

\* An error of get_mounts() propagates unchanged; otherwise the first mount
\* whose flag file opens is returned, and running off the end raises.
find_data_mount ==
    LET r == get_mounts IN
    IF r.err # "none" THEN [err |-> r.err, mount |-> NoMount]
    ELSE LET k == ScanFrom(r.mounts, 1) IN
         IF k = 0 THEN [err |-> "TargetNotFound", mount |-> NoMount]
         ELSE [err |-> "none", mount |-> r.mounts[k]]

\* --------------------------------------------------------------- Variables
Image1 == "http://x/img.gz"
Image2 == "http://y/img2.gz"
Key1 == "ssh-ed25519 AAAA... user@host"

Vars(image, key, country, ssid, pw) ==
    [final_image |-> image, ssh_key |-> key, wifi_country |-> country,
     wifi_ssid |-> ssid, wifi_password |-> pw]

\* The records Variables() returns in the model: final_image is required,
\* wifi_country defaults to 'NZ', every other field defaults to None and is
\* '' when the variable is set to nothing.
Configs ==
    { Vars(Image1, None, "NZ", None, None),         \* only final_image
      Vars(Image1, Key1, "US", "Home", "secret"),   \* everything set
      Vars(Image2, Key1, "NZ", None, None),         \* ssh only
      Vars(Image2, None, "NZ", "Home", "secret"),   \* wifi only
      Vars(Image1, None, "NZ", "Home", None),       \* ssid without password
      Vars(Image2, "", "US", "", "secret"),         \* empty strings, password without ssid
      Vars(Image1, "", "NZ", None, "secret") }      \* password without ssid

\* Variables(final_image='<url_to_image>') of the template branch.
TemplateVars == [final_image |-> "<url_to_image>", ssh_key |-> None,
                 wifi_country |-> "NZ", wifi_ssid |-> None, wifi_password |-> None]

\* --------------------------------------------------------- file contents
\* A template that fills ssid and psk the wrong way round.
make_supplicant_swapped(country, ssid, pw) ==
    << "ctrl_interface=DIR=/var/run/wpa_supplicant GROUP=netdev\n",
       "update_config=1\n",
       "country=", Fmt(country), "\n",
       "\n",
       "network={\n",
       " ssid=\"", Fmt(pw), "\"\n",
       " psk=\"", Fmt(ssid), "\"\n",
       "}\n" >>

make_supplicant(country, ssid, pw) ==
    << "ctrl_interface=DIR=/var/run/wpa_supplicant GROUP=netdev\n",
       "update_config=1\n",
       "country=", Fmt(country), "\n",
       "\n",
       "network={\n",
       " ssid=\"", Fmt(ssid), "\"\n",
       " psk=\"", Fmt(pw), "\"\n",
       "}\n" >>

\* vars.ssh_key + '\n'
AuthorizedKeysText(v) == <<v.ssh_key, "\n">>

\* The three f.write calls on ab-flasher.env, in order.
AbFlasherEnvText(v) ==
    <<"AB_OS_IMAGE_URL=", Fmt(v.final_image), "\n">> \o <<"AB_FORCE=true\n">> \o <<"AB_VERBOSE=1\n">>

\* ------------------------------------------------------------ the volumes
BlankVolume == [marker |-> "absent",
                ssh_dir |-> FALSE, authorized_keys |-> NoFile,
                wifi_dir |-> FALSE, wpa_supplicant |-> NoFile,
                ab_flasher_env |-> NoFile]

\* ------------------------------------------------------------- main steps
Terminal == {"done", "failed"}

\* An uncaught exception ends the run.
Raise(p, err) ==
    /\ pc' = [pc EXCEPT ![p] = "failed"]
    /\ outcome' = [outcome EXCEPT ![p] = err]

Goto(p, label) ==
    /\ pc' = [pc EXCEPT ![p] = label]
    /\ UNCHANGED outcome

Did(p, op) == ops' = [ops EXCEPT ![p] = Append(@, op)]

\* A main() whose template branch lacks the return: the template is written
\* and the run carries on with the locate.
StartFallsThrough(p) ==
    /\ pc[p] \in Terminal \cup {"idle"}
    /\ runs[p] < MaxRuns
    /\ runs' = [runs EXCEPT ![p] = @ + 1]
    /\ prev' = [prev EXCEPT ![p] = [outcome |-> outcome[p], data_mount |-> data_mount[p], ops |-> ops[p]]]
    /\ vol0' = [vol0 EXCEPT ![p] = vol]
    /\ ops' = [ops EXCEPT ![p] = <<>>]
    /\ scan' = [scan EXCEPT ![p] = NoScan]
    /\ data_mount' = [data_mount EXCEPT ![p] = NoMount]
    /\ pc' = [pc EXCEPT ![p] = "locate"]
    /\ outcome' = [outcome EXCEPT ![p] = "none"]
    /\ \E flag \in BOOLEAN :
         /\ recreate_dotenv' = [recreate_dotenv EXCEPT ![p] = flag]
         /\ IF dotenv = "absent" \/ flag
            THEN /\ dotenv' = "template"
                 /\ config' = [config EXCEPT ![p] = TemplateVars]
            ELSE /\ \E v \in Configs : config' = [config EXCEPT ![p] = v]
                 /\ UNCHANGED dotenv
    /\ UNCHANGED <<host, vol>>

\* A run of main() begins: typer calls main(recreate_dotenv).  When '.env'
\* is missing or recreate_dotenv is set only the template is written.
Start(p) ==
    /\ pc[p] \in Terminal \cup {"idle"}
    /\ runs[p] < MaxRuns
    /\ runs' = [runs EXCEPT ![p] = @ + 1]
    /\ prev' = [prev EXCEPT ![p] = [outcome |-> outcome[p], data_mount |-> data_mount[p], ops |-> ops[p]]]
    /\ vol0' = [vol0 EXCEPT ![p] = vol]
    /\ ops' = [ops EXCEPT ![p] = <<>>]
    /\ scan' = [scan EXCEPT ![p] = NoScan]
    /\ data_mount' = [data_mount EXCEPT ![p] = NoMount]
    /\ \E flag \in BOOLEAN :
         /\ recreate_dotenv' = [recreate_dotenv EXCEPT ![p] = flag]
         /\ IF dotenv = "absent" \/ flag
            THEN /\ dotenv' = "template"
                 /\ config' = [config EXCEPT ![p] = TemplateVars]
                 /\ pc' = [pc EXCEPT ![p] = "done"]
                 /\ outcome' = [outcome EXCEPT ![p] = "dotenv created"]
            ELSE /\ \E v \in Configs : config' = [config EXCEPT ![p] = v]
                 /\ pc' = [pc EXCEPT ![p] = "locate"]
                 /\ outcome' = [outcome EXCEPT ![p] = "none"]
                 /\ UNCHANGED dotenv
    /\ UNCHANGED <<host, vol>>

\* A locate that claims the volume it returns by taking the flag file away.
LocateClaims(p) ==
    /\ pc[p] = "locate"
    /\ scan' = [scan EXCEPT ![p] = get_mounts]
    /\ LET r == find_data_mount IN
         IF r.err # "none"
         THEN Raise(p, r.err) /\ UNCHANGED <<data_mount, vol>>
         ELSE /\ Goto(p, "ssh")
              /\ data_mount' = [data_mount EXCEPT ![p] = r.mount]
              /\ vol' = [vol EXCEPT ![r.mount].marker = "absent"]
    /\ UNCHANGED <<host, dotenv, config, ops, vol0, prev, runs, recreate_dotenv>>

\* data_mount = find_data_mount()
Locate(p) ==
    /\ pc[p] = "locate"
    /\ scan' = [scan EXCEPT ![p] = get_mounts]
    /\ LET r == find_data_mount IN
         IF r.err # "none"
         THEN Raise(p, r.err) /\ UNCHANGED data_mount
         ELSE Goto(p, "ssh") /\ data_mount' = [data_mount EXCEPT ![p] = r.mount]
    /\ UNCHANGED <<host, dotenv, vol, config, ops, vol0, prev, runs, recreate_dotenv>>

\* The frame of every step after the locate.
WriterFrame ==
    UNCHANGED <<host, dotenv, config, scan, data_mount, vol0, prev, runs, recreate_dotenv>>

\* if vars.ssh_key: ssh_dir = make_data_dir('ssh')
SshDir(p) ==
    /\ pc[p] = "ssh"
    /\ WriterFrame
    /\ IF ~Truthy(config[p].ssh_key)
       THEN Goto(p, "wifi") /\ UNCHANGED <<vol, ops>>
       ELSE \E ok \in BOOLEAN :
              IF ok
              THEN /\ vol' = [vol EXCEPT ![data_mount[p]].ssh_dir = TRUE]
                   /\ Did(p, "makedirs ssh")
                   /\ Goto(p, "ssh_open")
              ELSE Raise(p, "OSError") /\ UNCHANGED <<vol, ops>>

\* open(os.path.join(ssh_dir, 'authorized_keys'), 'w'): creates or truncates.
SshOpen(p) ==
    /\ pc[p] = "ssh_open"
    /\ WriterFrame
    /\ \E ok \in BOOLEAN :
         IF ok /\ vol[data_mount[p]].ssh_dir
         THEN /\ vol' = [vol EXCEPT ![data_mount[p]].authorized_keys = EmptyFile]
              /\ Did(p, "open ssh/authorized_keys")
              /\ Goto(p, "ssh_write")
         ELSE Raise(p, "OSError") /\ UNCHANGED <<vol, ops>>

\* A write of authorized_keys whose error is ignored: the run carries on.
SshWriteIgnoresError(p) ==
    /\ pc[p] = "ssh_write"
    /\ WriterFrame
    /\ \E ok \in BOOLEAN :
         IF ok
         THEN /\ vol' = [vol EXCEPT ![data_mount[p]].authorized_keys =
                                        AuthorizedKeysText(config[p])]
              /\ Did(p, "write ssh/authorized_keys")
              /\ Goto(p, "wifi")
         ELSE Goto(p, "wifi") /\ UNCHANGED <<vol, ops>>

\* f.write(vars.ssh_key + '\n') and the close at the end of the with block.
SshWrite(p) ==
    /\ pc[p] = "ssh_write"
    /\ WriterFrame
    /\ \E ok \in BOOLEAN :
         IF ok
         THEN /\ vol' = [vol EXCEPT ![data_mount[p]].authorized_keys =
                                        AuthorizedKeysText(config[p])]
              /\ Did(p, "write ssh/authorized_keys")
              /\ Goto(p, "wifi")
         ELSE Raise(p, "OSError") /\ UNCHANGED <<vol, ops>>

\* The ab-flasher.env step nested under the WiFi branch: skipped without ssid.
WifiDirSkipsEnv(p) ==
    /\ pc[p] = "wifi"
    /\ WriterFrame
    /\ IF ~Truthy(config[p].wifi_ssid)
       THEN Goto(p, "remove") /\ UNCHANGED <<vol, ops>>
       ELSE \E ok \in BOOLEAN :
              IF ok
              THEN /\ vol' = [vol EXCEPT ![data_mount[p]].wifi_dir = TRUE]
                   /\ Did(p, "makedirs wifi")
                   /\ Goto(p, "wifi_open")
              ELSE Raise(p, "OSError") /\ UNCHANGED <<vol, ops>>

\* if vars.wifi_ssid: wifi_dir = make_data_dir('wifi')
WifiDir(p) ==
    /\ pc[p] = "wifi"
    /\ WriterFrame
    /\ IF ~Truthy(config[p].wifi_ssid)
       THEN Goto(p, "env_open") /\ UNCHANGED <<vol, ops>>
       ELSE \E ok \in BOOLEAN :
              IF ok
              THEN /\ vol' = [vol EXCEPT ![data_mount[p]].wifi_dir = TRUE]
                   /\ Did(p, "makedirs wifi")
                   /\ Goto(p, "wifi_open")
              ELSE Raise(p, "OSError") /\ UNCHANGED <<vol, ops>>

\* open(os.path.join(wifi_dir, 'wpa_supplicant.conf'), 'w')
WifiOpen(p) ==
    /\ pc[p] = "wifi_open"
    /\ WriterFrame
    /\ \E ok \in BOOLEAN :
         IF ok /\ vol[data_mount[p]].wifi_dir
         THEN /\ vol' = [vol EXCEPT ![data_mount[p]].wpa_supplicant = EmptyFile]
              /\ Did(p, "open wifi/wpa_supplicant.conf")
              /\ Goto(p, "wifi_write")
         ELSE Raise(p, "OSError") /\ UNCHANGED <<vol, ops>>

\* f.write(make_supplicant(vars.wifi_country, vars.wifi_ssid, vars.wifi_password))
WifiWrite(p) ==
    /\ pc[p] = "wifi_write"
    /\ WriterFrame
    /\ \E ok \in BOOLEAN :
         IF ok
         THEN /\ vol' = [vol EXCEPT ![data_mount[p]].wpa_supplicant =
                            make_supplicant(config[p].wifi_country, config[p].wifi_ssid,
                                            config[p].wifi_password)]
              /\ Did(p, "write wifi/wpa_supplicant.conf")
              /\ Goto(p, "env_open")
         ELSE Raise(p, "OSError") /\ UNCHANGED <<vol, ops>>

\* The flag file removed before ab-flasher.env is written.
EnvOpenRemovesFlag(p) ==
    /\ pc[p] = "env_open"
    /\ WriterFrame
    /\ \E ok \in BOOLEAN :
         IF ok
         THEN /\ vol' = [vol EXCEPT ![data_mount[p]].ab_flasher_env = EmptyFile,
                                    ![data_mount[p]].marker = "absent"]
              /\ Did(p, "open ab-flasher.env")
              /\ Goto(p, "env_write")
         ELSE Raise(p, "OSError") /\ UNCHANGED <<vol, ops>>

\* open(os.path.join(data_mount, 'ab-flasher.env'), 'w')
EnvOpen(p) ==
    /\ pc[p] = "env_open"
    /\ WriterFrame
    /\ \E ok \in BOOLEAN :
         IF ok
         THEN /\ vol' = [vol EXCEPT ![data_mount[p]].ab_flasher_env = EmptyFile]
              /\ Did(p, "open ab-flasher.env")
              /\ Goto(p, "env_write")
         ELSE Raise(p, "OSError") /\ UNCHANGED <<vol, ops>>

\* A write of ab-flasher.env that cleans up after its own failure by
\* removing the marker.
EnvWriteCleansUp(p) ==
    /\ pc[p] = "env_write"
    /\ WriterFrame
    /\ \E ok \in BOOLEAN :
         IF ok
         THEN /\ vol' = [vol EXCEPT ![data_mount[p]].ab_flasher_env =
                                        AbFlasherEnvText(config[p])]
              /\ Did(p, "write ab-flasher.env")
              /\ Goto(p, "remove")
         ELSE /\ vol' = [vol EXCEPT ![data_mount[p]].marker = "absent"]
              /\ Raise(p, "OSError")
              /\ UNCHANGED ops

\* The three f.write calls and the close at the end of the with block.
EnvWrite(p) ==
    /\ pc[p] = "env_write"
    /\ WriterFrame
    /\ \E ok \in BOOLEAN :
         IF ok
         THEN /\ vol' = [vol EXCEPT ![data_mount[p]].ab_flasher_env =
                                        AbFlasherEnvText(config[p])]
              /\ Did(p, "write ab-flasher.env")
              /\ Goto(p, "remove")
         ELSE Raise(p, "OSError") /\ UNCHANGED <<vol, ops>>

\* A removal whose failure is swallowed: the run still reports completion.
RemoveFlagSwallows(p) ==
    /\ pc[p] = "remove"
    /\ WriterFrame
    /\ \E ok \in BOOLEAN :
         /\ IF ok /\ vol[data_mount[p]].marker # "absent"
            THEN /\ vol' = [vol EXCEPT ![data_mount[p]].marker = "absent"]
                 /\ Did(p, "remove .configure_me")
            ELSE UNCHANGED <<vol, ops>>
         /\ pc' = [pc EXCEPT ![p] = "done"]
         /\ outcome' = [outcome EXCEPT ![p] = "completed"]

\* A run that reports completion and leaves the flag file in place.
RemoveFlagKeepsFlag(p) ==
    /\ pc[p] = "remove"
    /\ WriterFrame
    /\ \E ok \in BOOLEAN :
         IF ok
         THEN /\ pc' = [pc EXCEPT ![p] = "done"]
              /\ outcome' = [outcome EXCEPT ![p] = "completed"]
              /\ UNCHANGED <<vol, ops>>
         ELSE Raise(p, "OSError") /\ UNCHANGED <<vol, ops>>

\* A removal that deletes the flag file of every mounted volume.
RemoveFlagEverywhere(p) ==
    /\ pc[p] = "remove"
    /\ WriterFrame
    /\ \E ok \in BOOLEAN :
         IF ok /\ vol[data_mount[p]].marker # "absent"
         THEN /\ vol' = [q \in Paths |-> [vol[q] EXCEPT !.marker = "absent"]]
              /\ Did(p, "remove .configure_me")
              /\ pc' = [pc EXCEPT ![p] = "done"]
              /\ outcome' = [outcome EXCEPT ![p] = "completed"]
         ELSE Raise(p, "OSError") /\ UNCHANGED <<vol, ops>>

\* A removal that accepts a flag file that is already gone.
RemoveFlagMissingOk(p) ==
    /\ pc[p] = "remove"
    /\ WriterFrame
    /\ \E ok \in BOOLEAN :
         IF ok
         THEN /\ vol' = [vol EXCEPT ![data_mount[p]].marker = "absent"]
              /\ ops' = [ops EXCEPT ![p] =
                            IF vol[data_mount[p]].marker # "absent"
                            THEN Append(@, "remove .configure_me") ELSE @]
              /\ pc' = [pc EXCEPT ![p] = "done"]
              /\ outcome' = [outcome EXCEPT ![p] = "completed"]
         ELSE Raise(p, "OSError") /\ UNCHANGED <<vol, ops>>

\* os.remove(flag_file), then log.info('Configuration completed').  The
\* removal cannot succeed when the flag file is no longer there.
RemoveFlag(p) ==
    /\ pc[p] = "remove"
    /\ WriterFrame
    /\ \E ok \in BOOLEAN :
         IF ok /\ vol[data_mount[p]].marker # "absent"
         THEN /\ vol' = [vol EXCEPT ![data_mount[p]].marker = "absent"]
              /\ Did(p, "remove .configure_me")
              /\ pc' = [pc EXCEPT ![p] = "done"]
              /\ outcome' = [outcome EXCEPT ![p] = "completed"]
         ELSE Raise(p, "OSError") /\ UNCHANGED <<vol, ops>>

main(p) ==
    \/ Start(p)
    \/ Locate(p)
    \/ SshDir(p) \/ SshOpen(p) \/ SshWrite(p)
    \/ WifiDir(p) \/ WifiOpen(p) \/ WifiWrite(p)
    \/ EnvOpen(p) \/ EnvWrite(p)
    \/ RemoveFlag(p)

\* ------------------------------------------------------------ initial states
SeqsUpTo(S, n) == UNION { [1..k -> S] : k \in 0..n }

\* os.listdir: the names of a directory, each once, in the order of the OS.
Listings == { L \in SeqsUpTo(Names, MaxLen) :
                \A i, j \in 1..Len(L) : i # j => L[i] # L[j] }

\* Lines of /proc/mounts as readlines() returns them.
PlainLine(n) == <<"/dev/sda1", " ", MntDir, n, " ", "ext4", " ", "rw", "\n">>
TabbedLine(n) == <<"tmpfs", " ", "\t", MntDir, n, "\t", "tmpfs", "\n">>
\* A mount point with a space in it is written with the escape \040.
EscapedLine(n) == <<"/dev/sdb1", " ", MntDir, n, "\\040", "x", " ", "vfat", "\n">>

PlainLines == { PlainLine(n) : n \in Names }
AllLines == PlainLines \cup { TabbedLine(n) : n \in Names }
                       \cup { EscapedLine(n) : n \in Names }

Absent == [st |-> "absent", entries |-> <<>>]
Denied == [st |-> "denied", entries |-> <<>>]
NoTable == [st |-> "absent", lines |-> <<>>]
TableDenied == [st |-> "denied", lines |-> <<>>]

Markers == {"absent", "readable", "unreadable"}

\* The mounts of the host: every path that the enumeration reports.
Listed == { get_mounts.mounts[i] : i \in 1..Len(get_mounts.mounts) }

\* No run before the first one.
NoPrev == [outcome |-> "none", data_mount |-> NoMount, ops |-> <<>>]

InitProcs ==
    /\ pc = [p \in Procs |-> "idle"]
    /\ config = [p \in Procs |-> TemplateVars]
    /\ scan = [p \in Procs |-> NoScan]
    /\ data_mount = [p \in Procs |-> NoMount]
    /\ outcome = [p \in Procs |-> "none"]
    /\ ops = [p \in Procs |-> <<>>]
    /\ vol0 = [p \in Procs |-> vol]
    /\ prev = [p \in Procs |-> NoPrev]
    /\ runs = [p \in Procs |-> 0]
    /\ recreate_dotenv = [p \in Procs |-> FALSE]

\* A host with freshly flashed (or already configured) volumes mounted, each
\* at one mount point: no artifact has been written yet, and a marker sits
\* only on mounted volumes.
Init ==
    /\ \/ /\ Volumes \in { [st |-> "listable", entries |-> L] : L \in Listings }
          /\ proc_mounts = NoTable
       \/ /\ Volumes = Absent
          /\ proc_mounts \in { [st |-> "readable",
                                  lines |-> [i \in 1..Len(L) |-> PlainLine(L[i])]] :
                                 L \in Listings }
       \/ /\ Volumes \in {Absent, Denied}
          /\ proc_mounts = NoTable
    /\ dotenv \in {"absent", "filled"}
    /\ vol \in [Paths -> { [BlankVolume EXCEPT !.marker = m] : m \in Markers }]
    /\ \A q \in Paths : q \notin Listed => vol[q].marker = "absent"
    /\ InitProcs

\* One invocation after the other, by a single operator.
Next == \E p \in {1} : main(p)

Spec == Init /\ [][Next]_vars

\* ------------------------------------------------------------------ re-runs
\* The operator repeats the command with the '.env' of the first run:
\* Variables() reads the same values again and no template is written.
SameConfig(p) ==
    /\ pc[p] \in Terminal => config'[p] = config[p]
    /\ recreate_dotenv'[p] = FALSE

InitRerun == Init /\ dotenv = "filled"

NextRerun ==
    \E p \in {1} :
        \/ Start(p) /\ SameConfig(p)
        \/ Locate(p)
        \/ SshDir(p) \/ SshOpen(p) \/ SshWrite(p)
        \/ WifiDir(p) \/ WifiOpen(p) \/ WifiWrite(p)
        \/ EnvOpen(p) \/ EnvWrite(p)
        \/ RemoveFlag(p)

SpecRerun == InitRerun /\ [][NextRerun]_vars

\* ---------------------------------------------------- concurrent invocations
\* Two invocations of the command, one run each, against a host with a
\* single freshly flashed volume mounted; their steps interleave freely.
InitConc ==
    /\ \/ /\ Volumes = [st |-> "listable", entries |-> <<"a">>]
          /\ proc_mounts = NoTable
       \/ /\ Volumes = Absent
          /\ proc_mounts = [st |-> "readable", lines |-> <<PlainLine("a")>>]
    /\ dotenv = "filled"
    /\ vol = [q \in Paths |-> IF q \in Listed
                              THEN [BlankVolume EXCEPT !.marker = "readable"]
                              ELSE BlankVolume]
    /\ pc = [p \in Procs |-> "idle"]
    /\ config = [p \in Procs |-> TemplateVars]
    /\ scan = [p \in Procs |-> NoScan]
    /\ data_mount = [p \in Procs |-> NoMount]
    /\ outcome = [p \in Procs |-> "none"]
    /\ ops = [p \in Procs |-> <<>>]
    /\ vol0 = [p \in Procs |-> vol]
    /\ prev = [p \in Procs |-> NoPrev]
    /\ runs = [p \in Procs |-> MaxRuns - 1]
    /\ recreate_dotenv = [p \in Procs |-> FALSE]

NextConc == \E p \in Procs : main(p)

SpecConc == InitConc /\ [][NextConc]_vars

\* ------------------------------------------- the enumerator and the locator
\* Every combination of the two enumeration mechanisms and of the markers,
\* with the process about to call find_data_mount().
InitLocate ==
    /\ Volumes \in {Absent, Denied}
                   \cup { [st |-> "listable", entries |-> L] : L \in Listings }
    /\ proc_mounts \in {NoTable, TableDenied}
                   \cup { [st |-> "readable", lines |-> L] :
                            L \in SeqsUpTo(AllLines, MaxLen) }
    /\ dotenv = "filled"
    /\ vol \in [Paths -> { [BlankVolume EXCEPT !.marker = m] : m \in Markers }]
    /\ pc = [p \in Procs |-> IF p = 1 THEN "locate" ELSE "idle"]
    /\ config = [p \in Procs |-> TemplateVars]
    /\ scan = [p \in Procs |-> NoScan]
    /\ data_mount = [p \in Procs |-> NoMount]
    /\ outcome = [p \in Procs |-> "none"]
    /\ ops = [p \in Procs |-> <<>>]
    /\ vol0 = [p \in Procs |-> vol]
    /\ prev = [p \in Procs |-> NoPrev]
    /\ runs = [p \in Procs |-> 1]
    /\ recreate_dotenv = [p \in Procs |-> FALSE]

NextLocate == \E p \in {1} : Locate(p)

SpecLocate == InitLocate /\ [][NextLocate]_vars

\* ================================================================ claims

\* The mounts of list L whose marker can be opened for reading.
ReadableAt(L, v) == { i \in 1..Len(L) : L[i] \in Paths /\ v[L[i]].marker = "readable" }

\* C1: for every mount list and every placement of markers, the locator
\* returns the first mount of the list whose marker is readable, and it
\* fails with TargetNotFound exactly when no mount of the list has one.
C1_LocatorReturnsFirstReadable ==
    \A p \in Procs :
        (pc[p] \notin {"idle", "locate"} /\ scan[p].err = "none") =>
            LET L == scan[p].mounts
                R == ReadableAt(L, vol0[p]) IN
            /\ (outcome[p] = "TargetNotFound") <=> (R = {})
            /\ R = {} => pc[p] = "failed" /\ data_mount[p] = NoMount
            /\ R # {} => \E k \in R : /\ \A j \in R : k <= j
                                      /\ data_mount[p] = L[k]

\* C1 witness: the first mount has an unreadable marker, the second a
\* readable one, and the second was returned.
C1_Witness ==
    /\ pc[1] = "ssh"
    /\ Len(scan[1].mounts) = 2
    /\ scan[1].mounts[1] # scan[1].mounts[2]
    /\ vol[scan[1].mounts[1]].marker = "unreadable"
    /\ vol[scan[1].mounts[2]].marker = "readable"
    /\ data_mount[1] = scan[1].mounts[2]

\* The second whitespace-separated field of a line, stated on positions:
\* the maximal run of non-blank tokens that has exactly one such run before it.
FieldStarts(s) == { a \in 1..Len(s) : s[a] \notin Whitespace /\ (a = 1 \/ s[a - 1] \in Whitespace) }
FieldEnd(s, a) == CHOOSE b \in a..Len(s) :
                     /\ \A i \in a..b : s[i] \notin Whitespace
                     /\ (b = Len(s) \/ s[b + 1] \in Whitespace)
SecondField(s) ==
    LET a == CHOOSE x \in FieldStarts(s) : Cardinality({ y \in FieldStarts(s) : y < x }) = 1
    IN SubSeq(s, a, FieldEnd(s, a))

\* What the claim of C8 promises for the host as it is.
C8_Promised(r) ==
    IF Volumes.st \in {"listable"}
    THEN /\ r.err = "none"
         /\ r.mounts = [i \in 1..Len(Volumes.entries) |-> <<VolumesDir, Volumes.entries[i]>>]
         /\ r.probed = <<"listdir">>
    ELSE IF proc_mounts.st # "absent"
    THEN /\ r.err = "none"
         /\ r.mounts = [i \in 1..Len(proc_mounts.lines) |-> SecondField(proc_mounts.lines[i])]
    ELSE r.err = "UnsupportedPlatform"

\* C8 as claimed: the enumerator has exactly the three outcomes, chosen by
\* "volumes directory listable", "else mount table exists", "else fail".
C8_AsClaimed ==
    \A p \in Procs : scan[p].err # "not called" => C8_Promised(scan[p])

\* C8 (amended): a listable volumes directory gives one path per entry and
\* the mount table is not read; a missing volumes directory falls through
\* to the mount table, which gives the second field of every line in line
\* order; both missing is UnsupportedPlatform; any other error of listing
\* the directory or opening the table is raised as it is, with no fallback.
\* The call changes no file.
C8_EnumeratorFirstApplicable ==
    \A p \in Procs : scan[p].err # "not called" =>
        LET r == scan[p] IN
        /\ Volumes.st = "listable" =>
             /\ r.err = "none"
             /\ r.mounts = [i \in 1..Len(Volumes.entries) |-> <<VolumesDir, Volumes.entries[i]>>]
             /\ r.probed = <<"listdir">>
        /\ Volumes.st = "denied" => r.err = "OSError" /\ r.probed = <<"listdir">>
        /\ (Volumes.st = "absent" /\ proc_mounts.st = "readable") =>
             /\ r.err = "none"
             /\ r.mounts = [i \in 1..Len(proc_mounts.lines) |-> SecondField(proc_mounts.lines[i])]
        /\ (Volumes.st = "absent" /\ proc_mounts.st = "denied") => r.err = "OSError"
        /\ (Volumes.st = "absent" /\ proc_mounts.st = "absent") => r.err = "UnsupportedPlatform"
        /\ r.err \in {"none", "OSError", "UnsupportedPlatform"}
        /\ (pc[p] = "ssh" \/ data_mount[p] = NoMount) => vol = vol0[p]

\* C8 witness: no volumes directory, a mount table whose first line
\* separates its fields by a blank and a tab, and its mount point returned.
C8_Witness ==
    /\ Volumes.st = "absent"
    /\ proc_mounts.st = "readable"
    /\ Len(proc_mounts.lines) = 2
    /\ proc_mounts.lines[1] = TabbedLine("b")
    /\ scan[1].err = "none"
    /\ scan[1].mounts[1] = <<MntDir, "b">>
    /\ scan[1].probed = <<"listdir", "open">>

\* ------------------------------------------------------ the writer's claims
\* A field that is neither absent nor empty.
IsSet(x) == x \notin {None, ""}

InSeq(x, sq) == \E i \in 1..Len(sq) : sq[i] = x

SshOps == <<"makedirs ssh", "open ssh/authorized_keys", "write ssh/authorized_keys">>
WifiOps == <<"makedirs wifi", "open wifi/wpa_supplicant.conf", "write wifi/wpa_supplicant.conf">>
EnvOps == <<"open ab-flasher.env", "write ab-flasher.env">>

\* The artifact writes that apply to configuration v, in order.
ApplicableWrites(v) ==
    (IF IsSet(v.ssh_key) THEN SshOps ELSE <<>>)
        \o (IF IsSet(v.wifi_ssid) THEN WifiOps ELSE <<>>)
        \o EnvOps

\* The mounts whose marker differs from what it was when the run of p started.
MarkerChanged(p) == { q \in Paths : vol[q].marker # vol0[p][q].marker }

\* C2: the marker of the target is removed only after every applicable
\* artifact write has completed; the removal is the last file operation of
\* the run; a run reports success only if the removal happened.
C2_MarkerRemovedLast ==
    \A p \in Procs : pc[p] # "idle" =>
        LET m == data_mount[p]
            removed == InSeq("remove .configure_me", ops[p]) IN
        /\ MarkerChanged(p) # {} => removed /\ MarkerChanged(p) = {m}
        /\ removed =>
             /\ ops[p] = ApplicableWrites(config[p]) \o <<"remove .configure_me">>
             /\ pc[p] = "done"
             /\ vol[m].marker = "absent" /\ vol0[p][m].marker = "readable"
             /\ IsSet(config[p].ssh_key) => vol[m].authorized_keys \notin {NoFile, EmptyFile}
             /\ IsSet(config[p].wifi_ssid) => vol[m].wpa_supplicant \notin {NoFile, EmptyFile}
             /\ vol[m].ab_flasher_env \notin {NoFile, EmptyFile}
        /\ outcome[p] = "completed" => removed

\* C2 witness: a run with ssh and wifi set has removed the marker.
C2_Witness ==
    /\ outcome[1] = "completed"
    /\ Len(ops[1]) = 9
    /\ vol[data_mount[1]].marker = "absent"

\* C3: after a run that completed on a volume, the next run of the pipeline
\* never selects that volume again and leaves its artifacts unchanged; when
\* no other mounted volume carries a readable marker it fails with
\* TargetNotFound and changes nothing at all.
C3_SecondRunFindsNothing ==
    \A p \in Procs :
        (prev[p].outcome = "completed" /\ scan[p].err # "not called"
                                        /\ pc[p] # "locate") =>
            LET m == prev[p].data_mount IN
            /\ data_mount[p] # m
            /\ vol[m] = vol0[p][m]
            /\ vol[m].marker = "absent"
            /\ ReadableAt(scan[p].mounts, vol0[p]) = {} =>
                 /\ outcome[p] = "TargetNotFound"
                 /\ pc[p] = "failed"
                 /\ vol = vol0[p]

\* C3 witness: the second run ended with TargetNotFound on a host whose
\* volume holds the artifacts of the first run.
C3_Witness ==
    /\ prev[1].outcome = "completed"
    /\ Len(prev[1].ops) = 9
    /\ outcome[1] = "TargetNotFound"
    /\ vol[prev[1].data_mount].authorized_keys = <<Key1, "\n">>
    /\ vol[prev[1].data_mount].wpa_supplicant # NoFile
    /\ vol[prev[1].data_mount].ab_flasher_env # NoFile

\* C4: with ssh_key empty or absent no ssh artifact is created; with
\* wifi_ssid empty or absent neither wifi/wpa_supplicant.conf nor wifi/ is
\* created, whatever wifi_password is; with only final_image set a completed
\* run did nothing but write ab-flasher.env and remove the marker.
C4_ConditionalWrites ==
    \A p \in Procs : \A q \in Paths : pc[p] # "idle" =>
        /\ ~IsSet(config[p].ssh_key) =>
             /\ vol[q].ssh_dir = vol0[p][q].ssh_dir
             /\ vol[q].authorized_keys = vol0[p][q].authorized_keys
             /\ \A i \in 1..Len(SshOps) : ~InSeq(SshOps[i], ops[p])
        /\ ~IsSet(config[p].wifi_ssid) =>
             /\ vol[q].wifi_dir = vol0[p][q].wifi_dir
             /\ vol[q].wpa_supplicant = vol0[p][q].wpa_supplicant
             /\ \A i \in 1..Len(WifiOps) : ~InSeq(WifiOps[i], ops[p])
        /\ (/\ config[p].ssh_key = None /\ config[p].wifi_ssid = None
            /\ config[p].wifi_password = None /\ outcome[p] = "completed") =>
             /\ ops[p] = EnvOps \o <<"remove .configure_me">>
             /\ vol[data_mount[p]].ab_flasher_env # NoFile
             /\ vol[data_mount[p]].marker = "absent"

\* C4 witness: a first run with only final_image set has completed on a
\* volume that has neither ssh/ nor wifi/.
C4_Witness ==
    /\ config[1] = Vars(Image1, None, "NZ", None, None)
    /\ outcome[1] = "completed"
    /\ runs[1] = 1
    /\ ~vol[data_mount[1]].ssh_dir /\ ~vol[data_mount[1]].wifi_dir
    /\ vol[data_mount[1]].ab_flasher_env # NoFile

\* C4 second case: wifi_ssid is the empty string while wifi_password is set.
C4_WitnessEmptySsid ==
    /\ config[1].wifi_ssid = "" /\ config[1].wifi_password = "secret"
    /\ outcome[1] = "completed"
    /\ ~vol[data_mount[1]].wifi_dir

EnvLines(u) == <<"AB_OS_IMAGE_URL=", u, "\n", "AB_FORCE=true\n", "AB_VERBOSE=1\n">>

\* C6: every completed run has written ab-flasher.env at the root of the
\* target, whatever the ssh and wifi fields are, and the file then holds
\* exactly the three lines with the final_image of this run, whatever it
\* held before.
C6_EnvAlwaysWritten ==
    \A p \in Procs :
        outcome[p] = "completed" =>
            /\ InSeq("open ab-flasher.env", ops[p])
            /\ InSeq("write ab-flasher.env", ops[p])
            /\ vol[data_mount[p]].ab_flasher_env = EnvLines(config[p].final_image)

\* C6 witness: the completed run replaced an ab-flasher.env that an earlier
\* run had written for another image.
C6_Witness ==
    /\ outcome[1] = "completed"
    /\ vol0[1][data_mount[1]].ab_flasher_env = EnvLines(Image2)
    /\ vol[data_mount[1]].ab_flasher_env = EnvLines(Image1)
    /\ ~IsSet(config[1].ssh_key) /\ ~IsSet(config[1].wifi_ssid)

\* C7: when no enumerated mount carries a readable marker the run fails
\* with TargetNotFound and no file or directory of any mount is created,
\* overwritten or deleted.
C7_DiskNotFound ==
    \A p \in Procs :
        (/\ pc[p] \notin {"idle", "locate"}
         /\ scan[p].err = "none"
         /\ ReadableAt(scan[p].mounts, vol0[p]) = {}) =>
            /\ pc[p] = "failed"
            /\ outcome[p] = "TargetNotFound"
            /\ ops[p] = <<>>
            /\ vol = vol0[p]

\* C7 witness: two mounts, one without marker and one whose marker cannot
\* be read, and the run has failed.
C7_Witness ==
    /\ outcome[1] = "TargetNotFound"
    /\ Len(scan[1].mounts) = 2
    /\ vol[scan[1].mounts[1]].marker = "absent"
    /\ vol[scan[1].mounts[2]].marker = "unreadable"

\* C9: with final_image, ssh_key, wifi_ssid, wifi_password and wifi_country
\* all set, a run that meets no fault ends with the three artifacts holding
\* the key and a newline, the filled template and the three fixed lines,
\* and with the marker gone.
C9_FullConfiguration ==
    \A p \in Procs :
        LET v == config[p]
            m == data_mount[p] IN
        (/\ IsSet(v.final_image) /\ IsSet(v.ssh_key) /\ IsSet(v.wifi_ssid)
         /\ IsSet(v.wifi_password) /\ IsSet(v.wifi_country)
         /\ pc[p] \in Terminal /\ m # NoMount) =>
            /\ outcome[p] \in {"completed", "OSError"}
            /\ outcome[p] = "completed" =>
                 /\ vol[m].ssh_dir /\ vol[m].wifi_dir
                 /\ vol[m].authorized_keys = <<v.ssh_key, "\n">>
                 /\ vol[m].wpa_supplicant =
                      << "ctrl_interface=DIR=/var/run/wpa_supplicant GROUP=netdev\n",
                         "update_config=1\n",
                         "country=", v.wifi_country, "\n",
                         "\n",
                         "network={\n",
                         " ssid=\"", v.wifi_ssid, "\"\n",
                         " psk=\"", v.wifi_password, "\"\n",
                         "}\n" >>
                 /\ vol[m].ab_flasher_env = EnvLines(v.final_image)
                 /\ vol[m].marker = "absent"

\* C9 witness: the round trip of the specification has completed.
C9_Witness ==
    /\ config[1] = Vars(Image1, Key1, "US", "Home", "secret")
    /\ outcome[1] = "completed"
    /\ vol[data_mount[1]].marker = "absent"
    /\ vol[data_mount[1]].wpa_supplicant # NoFile

\* The run whose operations are o wrote every artifact and then stopped
\* short of the removal.
StoppedAtRemoval(o, v) == o = ApplicableWrites(v)

\* C10: when the removal of the marker fails after all artifacts were
\* written, the run ends in failure and never reports completion, the
\* artifacts stay on the volume, the marker is still there, and the next
\* run of the pipeline selects the same volume again.
C10_RemovalFailure ==
    \A p \in Procs :
        /\ (pc[p] \in Terminal /\ StoppedAtRemoval(ops[p], config[p])) =>
             LET m == data_mount[p] IN
             /\ pc[p] = "failed"
             /\ outcome[p] = "OSError"
             /\ vol[m].marker = "readable"
             /\ vol[m].ab_flasher_env = EnvLines(config[p].final_image)
             /\ IsSet(config[p].ssh_key) => vol[m].authorized_keys = <<config[p].ssh_key, "\n">>
             /\ IsSet(config[p].wifi_ssid) => vol[m].wpa_supplicant \notin {NoFile, EmptyFile}
        /\ (/\ prev[p].outcome = "OSError"
            /\ Len(prev[p].ops) > 0
            /\ prev[p].ops[Len(prev[p].ops)] = "write ab-flasher.env"
            /\ scan[p].err # "not called" /\ pc[p] # "locate") =>
             /\ data_mount[p] = prev[p].data_mount
             /\ outcome[p] # "TargetNotFound"

\* C10 witness: the removal failed in the previous run and this run has
\* found the same volume and completed on it.
C10_Witness ==
    /\ prev[1].outcome = "OSError"
    /\ Len(prev[1].ops) = 8
    /\ prev[1].ops[8] = "write ab-flasher.env"
    /\ data_mount[1] = prev[1].data_mount
    /\ outcome[1] = "completed"

\* ------------------------------------------------------------ I/O errors
IsPrefix(a, b) == Len(a) <= Len(b) /\ SubSeq(b, 1, Len(a)) = a

\* What is on volume w0 after the operations o of a run with configuration
\* v: a completed makedirs leaves the directory, a completed open leaves the
\* file empty, a completed write leaves the file with its content, a
\* completed removal leaves no marker; everything else is as it was.
AfterOps(w0, o, v) ==
    [marker |-> IF InSeq("remove .configure_me", o) THEN "absent" ELSE w0.marker,
     ssh_dir |-> IF InSeq("makedirs ssh", o) THEN TRUE ELSE w0.ssh_dir,
     authorized_keys |->
        IF InSeq("write ssh/authorized_keys", o) THEN <<v.ssh_key, "\n">>
        ELSE IF InSeq("open ssh/authorized_keys", o) THEN EmptyFile
        ELSE w0.authorized_keys,
     wifi_dir |-> IF InSeq("makedirs wifi", o) THEN TRUE ELSE w0.wifi_dir,
     wpa_supplicant |->
        IF InSeq("write wifi/wpa_supplicant.conf", o)
        THEN << "ctrl_interface=DIR=/var/run/wpa_supplicant GROUP=netdev\n",
                "update_config=1\n",
                "country=", v.wifi_country, "\n",
                "\n",
                "network={\n",
                " ssid=\"", v.wifi_ssid, "\"\n",
                " psk=\"", IF v.wifi_password = None THEN "None" ELSE v.wifi_password, "\"\n",
                "}\n" >>
        ELSE IF InSeq("open wifi/wpa_supplicant.conf", o) THEN EmptyFile
        ELSE w0.wpa_supplicant,
     ab_flasher_env |->
        IF InSeq("write ab-flasher.env", o) THEN EnvLines(v.final_image)
        ELSE IF InSeq("open ab-flasher.env", o) THEN EmptyFile
        ELSE w0.ab_flasher_env]

\* C11: a run that ended with an I/O error after the locate performed a
\* prefix of the writer's steps and nothing after the failing one; what the
\* earlier steps wrote is still there, the marker is still present, and the
\* run has failed.
C11_AbortOnIOError ==
    \A p \in Procs :
        (pc[p] \in Terminal /\ data_mount[p] # NoMount /\ outcome[p] # "completed") =>
            LET m == data_mount[p] IN
            /\ pc[p] = "failed"
            /\ outcome[p] = "OSError"
            /\ IsPrefix(ops[p], ApplicableWrites(config[p]))
            /\ vol[m] = AfterOps(vol0[p][m], ops[p], config[p])
            /\ vol[m].marker = "readable"

\* C11 witness: the write of wpa_supplicant.conf failed; authorized_keys is
\* in place, wpa_supplicant.conf is empty, ab-flasher.env was never opened.
C11_Witness ==
    /\ pc[1] = "failed"
    /\ ops[1] = SshOps \o <<"makedirs wifi", "open wifi/wpa_supplicant.conf">>
    /\ vol[data_mount[1]].authorized_keys = <<Key1, "\n">>
    /\ vol[data_mount[1]].wpa_supplicant = EmptyFile
    /\ vol[data_mount[1]].ab_flasher_env = NoFile
    /\ vol[data_mount[1]].marker = "readable"

\* -------------------------------------------------------------- recovery
\* What a single fault-free run with configuration v leaves on a freshly
\* flashed volume.
SingleRunResult(v) ==
    AfterOps([BlankVolume EXCEPT !.marker = "readable"],
             ApplicableWrites(v) \o <<"remove .configure_me">>, v)

AbortedAfterLocate(r) == r.outcome = "OSError" /\ r.data_mount # NoMount

\* C12: a run that follows, with the same configuration, a run aborted after
\* its locate selects the same volume again; its only possible failure is a
\* fault of its own, and when it completes the volume holds exactly what a
\* single fault-free run leaves: the applicable artifacts and no marker.
C12_RecoveryByRerun ==
    \A p \in Procs :
        /\ (AbortedAfterLocate(prev[p]) /\ data_mount[p] # NoMount) =>
               data_mount[p] = prev[p].data_mount
        /\ (AbortedAfterLocate(prev[p]) /\ pc[p] \in Terminal) =>
               outcome[p] \in {"completed", "OSError"}
        /\ outcome[p] = "completed" =>
               vol[data_mount[p]] = SingleRunResult(config[p])

\* C12 witness: the previous run stopped at the write of wpa_supplicant.conf
\* with authorized_keys already written; this run has completed on the same
\* volume.
C12_Witness ==
    /\ prev[1].outcome = "OSError"
    /\ prev[1].ops = SshOps \o <<"makedirs wifi", "open wifi/wpa_supplicant.conf">>
    /\ outcome[1] = "completed"
    /\ data_mount[1] = prev[1].data_mount
    /\ vol[data_mount[1]].wpa_supplicant # EmptyFile
    /\ vol[data_mount[1]].ab_flasher_env = EnvLines(config[1].final_image)
    /\ vol[data_mount[1]].marker = "absent"

\* C12 witness: the previous run stopped at the removal of the marker.
C12_WitnessRemoval ==
    /\ StoppedAtRemoval(prev[1].ops, config[1])
    /\ prev[1].outcome = "OSError"
    /\ outcome[1] = "completed"
    /\ data_mount[1] = prev[1].data_mount

\* ---------------------------------------------------- errors of the locate
\* C13: once the mounts are enumerated, a candidate whose marker cannot be
\* opened never fails the scan: whenever some mount of the list has a
\* readable marker a mount is returned, unreadable candidates before it
\* notwithstanding, and a locate that returns nothing fails with
\* TargetNotFound and with nothing else.
C13_ProbeErrorsSkipped ==
    \A p \in Procs :
        (pc[p] \notin {"idle", "locate"} /\ scan[p].err = "none") =>
            LET L == scan[p].mounts IN
            /\ ReadableAt(L, vol0[p]) # {} =>
                   /\ data_mount[p] # NoMount
                   /\ vol0[p][data_mount[p]].marker = "readable"
                   /\ outcome[p] # "TargetNotFound"
            /\ data_mount[p] = NoMount =>
                   pc[p] = "failed" /\ outcome[p] = "TargetNotFound"

\* C13 witness: a mount table with two mount points; the marker of the first
\* cannot be opened, the second was returned.
C13_Witness ==
    /\ Volumes.st = "absent"
    /\ scan[1].err = "none"
    /\ Len(scan[1].mounts) = 2
    /\ scan[1].mounts[1] \in Paths
    /\ vol0[1][scan[1].mounts[1]].marker = "unreadable"
    /\ data_mount[1] = scan[1].mounts[2]
    /\ data_mount[1] # scan[1].mounts[1]
    /\ pc[1] = "ssh"

\* The enumerated mounts on which a marker file exists, readable or not.
MarkedAt(L, v) == { i \in 1..Len(L) : L[i] \in Paths /\ v[L[i]].marker # "absent" }

LocateFailed(p) == pc[p] = "failed" /\ data_mount[p] = NoMount

\* C14 as claimed: TargetNotFound is reported only when no mount has a
\* marker, UnsupportedPlatform only as the enumerator raised it, and the
\* kinds differ.
C14_AsClaimed ==
    \A p \in Procs :
        LocateFailed(p) =>
            /\ outcome[p] = "TargetNotFound" =>
                   scan[p].err = "none" /\ MarkedAt(scan[p].mounts, vol0[p]) = {}
            /\ outcome[p] = "UnsupportedPlatform" => scan[p].err = "UnsupportedPlatform"

\* C14: a failed locate reports TargetNotFound exactly when the enumeration
\* succeeded and no enumerated mount has a marker that opens for reading (no
\* marker at all, or only markers that cannot be opened); it reports
\* UnsupportedPlatform exactly when the enumerator found neither the volumes
\* directory nor the mount table; and every error of the enumerator is the
\* outcome of the run, unchanged.
C14_FailureKinds ==
    \A p \in Procs :
        LocateFailed(p) =>
            /\ outcome[p] = "TargetNotFound" <=>
                   (scan[p].err = "none" /\ ReadableAt(scan[p].mounts, vol0[p]) = {})
            /\ outcome[p] = "UnsupportedPlatform" <=>
                   (Volumes.st = "absent" /\ proc_mounts.st = "absent")
            /\ scan[p].err # "none" => outcome[p] = scan[p].err
            /\ outcome[p] \in {"TargetNotFound", "UnsupportedPlatform", "OSError", "IndexError"}

\* C14 witness: the only mount has a marker that cannot be opened, and the
\* locate has reported TargetNotFound.
C14_Witness ==
    /\ LocateFailed(1)
    /\ outcome[1] = "TargetNotFound"
    /\ Volumes.st = "listable"
    /\ Len(scan[1].mounts) = 1
    /\ MarkedAt(scan[1].mounts, vol0[1]) = {1}

\* C14 witness: neither mechanism exists and UnsupportedPlatform is the
\* outcome of the run.
C14_WitnessUnsupported ==
    /\ LocateFailed(1)
    /\ outcome[1] = "UnsupportedPlatform"
    /\ scan[1].probed = <<"listdir", "open">>

\* ------------------------------------------------------------------ frame
\* C15: at every point of a run, every mount other than the selected target
\* is as it was when the run started, and the target differs from what it
\* was only by the operations the run has completed: the two directories,
\* the three artifacts and, last, its marker.  With several readable markers
\* the target is the first in enumeration order and the others keep theirs.
C15_FrameOfRun ==
    \A p \in Procs : pc[p] # "idle" =>
        LET m == data_mount[p]
            L == scan[p].mounts
            R == ReadableAt(L, vol0[p]) IN
        /\ \A q \in Paths : q # m => vol[q] = vol0[p][q]
        /\ m # NoMount =>
             /\ vol[m] = AfterOps(vol0[p][m], ops[p], config[p])
             /\ \E k \in R : L[k] = m /\ \A j \in R : k <= j
             /\ \A j \in R : L[j] # m => vol[L[j]].marker = "readable"
        /\ m = NoMount => vol = vol0[p]

\* C15 witness: two mounts carried a readable marker; the run has completed
\* on the first, and the second still has its marker and no artifact.
C15_Witness ==
    /\ outcome[1] = "completed"
    /\ Len(scan[1].mounts) = 2
    /\ data_mount[1] = scan[1].mounts[1]
    /\ vol0[1][data_mount[1]].marker = "readable"
    /\ vol[data_mount[1]].marker = "absent"
    /\ scan[1].mounts[2] # data_mount[1]
    /\ vol[scan[1].mounts[2]] = [BlankVolume EXCEPT !.marker = "readable"]

\* ------------------------------------------------- concurrent invocations
\* The positions of a run between its locate and its removal of the marker.
WriterPhase == {"ssh", "ssh_open", "ssh_write", "wifi", "wifi_open", "wifi_write",
                "env_open", "env_write", "remove"}

Removed(p) == InSeq("remove .configure_me", ops[p])

Writes(p) == { i \in 1..Len(ops[p]) :
                 ops[p][i] \in {"write ssh/authorized_keys",
                                "write wifi/wpa_supplicant.conf",
                                "write ab-flasher.env"} }

\* C16: the locate takes no lock and leaves the marker where it is: while an
\* invocation is between its locate and its removal of the marker and no
\* invocation has removed the marker, the marker is still readable, and a
\* second invocation that calls the locator now is returned the same volume.
C16_NoLockAfterLocate ==
    \A p \in Procs :
        (pc[p] \in WriterPhase /\ \A q \in Procs : ~Removed(q)) =>
            /\ vol[data_mount[p]].marker = "readable"
            /\ find_data_mount.err = "none"
            /\ find_data_mount.mount = data_mount[p]

\* C16 witness: both invocations have passed the locate for the same volume
\* and each has written an artifact on it, and the marker is still there.
C16_Witness ==
    /\ pc[1] \in WriterPhase /\ pc[2] \in WriterPhase
    /\ data_mount[1] = data_mount[2]
    /\ Writes(1) # {} /\ Writes(2) # {}
    /\ ~Removed(1) /\ ~Removed(2)
    /\ vol[data_mount[1]].marker = "readable"

\* C17: of two concurrent invocations against the one marked volume, at most
\* one removes the marker and at most one completes; once one has completed,
\* the other, when its pipeline run has ended, has failed: with
\* TargetNotFound when it located nothing, with an error otherwise, which is
\* the failed removal when all its artifacts are written.
C17_AtMostOneCompletes ==
    /\ \A p, q \in Procs : (Removed(p) /\ Removed(q)) => p = q
    /\ \A p, q \in Procs : (outcome[p] = "completed" /\ outcome[q] = "completed") => p = q
    /\ \A p \in Procs : outcome[p] = "completed" => Removed(p)
    /\ \A p, q \in Procs :
         (/\ p # q
          /\ outcome[p] = "completed"
          /\ pc[q] \in Terminal
          /\ outcome[q] # "dotenv created") =>
             /\ pc[q] = "failed"
             /\ data_mount[q] = NoMount => outcome[q] = "TargetNotFound"
             /\ data_mount[q] # NoMount =>
                  /\ outcome[q] = "OSError"
                  /\ data_mount[q] = data_mount[p]
                  /\ IsPrefix(ops[q], ApplicableWrites(config[q]))

\* C17 witness: one invocation has completed; the other had written all its
\* artifacts on the same volume and failed at the removal of the marker.
C17_Witness ==
    /\ outcome[1] = "completed"
    /\ pc[2] = "failed"
    /\ outcome[2] = "OSError"
    /\ data_mount[2] = data_mount[1]
    /\ StoppedAtRemoval(ops[2], config[2])
    /\ vol[data_mount[1]].marker = "absent"

\* C17 witness: the other invocation located after the removal and found
\* nothing.
C17_WitnessNotFound ==
    /\ outcome[1] = "completed"
    /\ outcome[2] = "TargetNotFound"

\* ------------------------------------------------------ the '.env' template
\* The run of p wrote the '.env' template.
TemplateRun(p) == pc[p] # "idle" /\ (recreate_dotenv[p] \/ outcome[p] = "dotenv created")

\* C18: a run started with recreate_dotenv set, and the first run on a host
\* without '.env', has ended right after writing the template: it has called
\* neither the enumerator nor the locator, has performed no file operation
\* on any volume, and every volume, markers included, is as it was.  No run
\* gets past its start while '.env' is missing.
C18_TemplateOnly ==
    \A p \in Procs :
        /\ TemplateRun(p) =>
             /\ pc[p] = "done"
             /\ outcome[p] = "dotenv created"
             /\ dotenv = "template"
             /\ scan[p] = NoScan
             /\ data_mount[p] = NoMount
             /\ ops[p] = <<>>
             /\ vol = vol0[p]
        /\ pc[p] # "idle" => dotenv # "absent"
        /\ (runs[p] = 1 /\ dotenv = "template" /\ \A q \in Procs : q # p => runs[q] = 0) =>
             TemplateRun(p)

\* C18 witness: '.env' was missing, a volume with a readable marker is
\* mounted, and the run has written the template and left the marker.
C18_Witness ==
    /\ runs[1] = 1
    /\ ~recreate_dotenv[1]
    /\ outcome[1] = "dotenv created"
    /\ \E q \in Listed : vol[q].marker = "readable"

\* C18 witness: '.env' was filled in and recreate_dotenv is set.
C18_WitnessRecreate ==
    /\ recreate_dotenv[1]
    /\ prev[1].outcome = "TargetNotFound"
    /\ outcome[1] = "dotenv created"
    /\ \E q \in Listed : vol[q].marker = "unreadable"

====
